---- MODULE Spec2Model ----
(***************************************************************************)
(* State-machine model of the Rigol waveform-generator driver              *)
(* (ivi/rigol/rigolBaseWG.py) and of the digital waveform fetch of         *)
(* ivi/rigol/rigolMSO5072.py: the per-output attribute lists, the          *)
(* cache-valid flags, and one action per getter / setter.                  *)
(*                                                                         *)
(* Representation choices                                                  *)
(*  - A Python list is a sequence; lst[index] is lst[index + 1].           *)
(*  - Floats are fixed-point integers, one unit per attribute:             *)
(*      frequency 0.1 Hz, amplitude and DC offset 0.001 V, start phase     *)
(*      1 degree, symmetry and duty cycle 1 percent.                       *)
(*  - A Transport call is a record holding the Python format string and    *)
(*    the tuple of arguments that fill it.                                 *)
(*  - A handler is an operator from a machine record m (the driver's       *)
(*    fields, the Transport calls issued so far by the running call, the   *)
(*    exception raised, the value returned) to the machine record after    *)
(*    it, so that a handler can call another handler as the code does.     *)
(*  - The Python int 50 that _init_outputs stores as the impedance is the  *)
(*    string "50" (it is neither "HighZ" nor "50Ohms").                    *)
(***************************************************************************)
EXTENDS Integers, Sequences, FiniteSets, TLC

VARIABLES
    simulate,         \* self._driver_operation_simulate
    value,            \* the per-output lists self._output_* (a record of sequences)
    output_settings,  \* self._output_settings (one dict, shared by all indices)
    cache_valid,      \* self._cache_valid: tag -> index -> BOOLEAN
    device,           \* history: what the device last reported / was commanded, per attribute and index
    pre,              \* history: value, cache_valid and output_settings before the last call
    last,             \* history: the last call: operation, index, argument, exception, result, Transport calls
    nops              \* history: number of calls made in this session

vars == <<simulate, value, output_settings, cache_valid, device, pre, last, nops>>

----------------------------------------------------------------------------
(* Bounds of the exploration *)

MaxOps == 2        \* calls per explored session
MaxBlockLen == 2   \* bytes in a binary block returned by the Transport

----------------------------------------------------------------------------
(* Program constants *)

OutputCount == 2
OutputIndices == 0 .. (OutputCount - 1)

OutputMode == {"function", "arbitrary"}

StandardWaveformMapping ==
    [k \in {"sin", "squ", "ramp", "dc", "puls", "nois", "sinc", "exprise",
            "expfall", "ecg", "gaussian", "lorentz", "haversine"} |-> k]

FrequencyMin == 1             \* 0.1 Hz
FrequencyMax == 500000000     \* 50e6 Hz
StartPhaseMin == -180
StartPhaseMax == 180
SymmetryMin == 0
SymmetryMax == 100
AmplitudeMin == 10            \* 0.01
AmplitudeMax == 5000          \* 5.0
DutyCycleMin == 10
DutyCycleMax == 90
RampDownMax == 10             \* symmetry <= 10.0
RampUpMin == 90               \* symmetry >= 90.0
TriangleSymmetry == 50
RampUpSymmetry == 100
RampDownSymmetry == 0
DefaultSymmetry == 50         \* _output_standard_waveform_symmetry.append(50.0)

----------------------------------------------------------------------------
(* Python and framework primitives *)

EmptyDict == [k \in {} |-> ""]

ListGet(lst, index) == lst[index + 1]
ListPut(lst, index, v) == [lst EXCEPT ![index + 1] = v]

\* "output%d" % (i+1), "source%d" % (i+1); "output" / "source" when there is one output
NameOf(base, count, i) ==
    IF count = 1 THEN base
    ELSE IF i = 0 THEN base \o "1"
    ELSE IF i = 1 THEN base \o "2"
    ELSE base \o "3"

output_name == [k \in 1 .. OutputCount |-> NameOf("output", OutputCount, k - 1)]
source_name == [k \in 1 .. OutputCount |-> NameOf("source", OutputCount, k - 1)]

\* Number of decimal digits of a natural number
RECURSIVE Digits(_)
Digits(n) == IF n < 10 THEN 1 ELSE 1 + Digits(n \div 10)

RECURSIVE Pow10(_)
Pow10(k) == IF k <= 0 THEN 1 ELSE 10 * Pow10(k - 1)

\* "%e" % v keeps seven significant digits (round half to even)
FormatE(v) ==
    LET a == IF v < 0 THEN -v ELSE v
        d == Digits(a)
        p == Pow10(d - 7)
        q == a \div p
        r == a % p
        up == (2 * r > p) \/ (2 * r = p /\ q % 2 = 1)
        t == IF d <= 7 THEN a ELSE (IF up THEN q + 1 ELSE q) * p
    IN IF v < 0 THEN -t ELSE t

\* "%d" % value for a bool
FormatD(b) == IF b THEN 1 ELSE 0

\* bool(int(resp))
BoolOfInt(n) == n # 0

\* str.lower() on the device tokens used here
Lower(tok) ==
    CASE tok = "SIN" -> "sin"
      [] tok = "SQU" -> "squ"
      [] tok = "RAMP" -> "ramp"
      [] tok = "NOIS" -> "nois"
      [] tok = "NOISE" -> "noise"
      [] tok = "ARBITRARY" -> "arbitrary"
      [] OTHER -> tok

\* [k for k,v in StandardWaveformMapping.items() if v==token]
KeysOf(token) == {k \in DOMAIN StandardWaveformMapping : StandardWaveformMapping[k] = token}

----------------------------------------------------------------------------
(* The machine record threaded through a running call *)

Tags ==
    {"output_enabled", "output_impedance", "output_mode", "output_settings",
     "output_standard_waveform_frequency", "output_standard_waveform_start_phase",
     "output_standard_waveform_waveform", "output_standard_waveform_symmetry",
     "output_standard_waveform_amplitude", "output_standard_waveform_dc_offset",
     "output_standard_waveform_duty_cycle_high"}

\* The tags that own a per-output list
ListTags == Tags \ {"output_settings"}

Machine ==
    [value |-> value, output_settings |-> output_settings, cache_valid |-> cache_valid,
     calls |-> <<>>, exc |-> "none", ret |-> "None"]

Raise(m, e) == [m EXCEPT !.exc = e]
Return(m, v) == [m EXCEPT !.ret = v]

Slot(m, tag, index) == ListGet(m.value[tag], index)
\* mutant: a store that fills every slot of the list
Store_EverySlot(m, tag, index, v) == [m EXCEPT !.value[tag] = [k \in DOMAIN @ |-> v]]

Store(m, tag, index, v) == [m EXCEPT !.value[tag] = ListPut(@, index, v)]

\* ivi.Driver._get_cache_valid(index=index): the tag is the calling method's
\* name without its _get_ / _set_ prefix
_get_cache_valid(m, tag, index) == m.cache_valid[tag][index]

\* ivi.Driver._set_cache_valid(valid, tag, index)
_set_cache_valid(m, valid, tag, index) == [m EXCEPT !.cache_valid[tag][index] = valid]

\* Transport: the k-th call of the running handler raises iff env.fail_at = k
TransportCall(m, env, kind, fmt, args, reply) ==
    LET failed == (env.fail_at = Len(m.calls) + 1)
    IN [m EXCEPT !.calls = Append(@, [kind |-> kind, fmt |-> fmt, args |-> args,
                                       reply |-> IF failed THEN "" ELSE reply,
                                       failed |-> failed]),
                 !.exc = IF failed THEN "TransportError" ELSE @]

_write(m, env, fmt, args) == TransportCall(m, env, "write", fmt, args, "")
_ask(m, env, fmt, args, reply) == TransportCall(m, env, "ask", fmt, args, reply)
_ask_for_ieee_block(m, env, fmt, reply) == TransportCall(m, env, "ask_for_ieee_block", fmt, <<>>, reply)
_read_raw(m, env) == TransportCall(m, env, "read_raw", "", <<>>, "")

\* mutant: the getters' guard without the simulate test
MustQuery_IgnoreSimulate(m, tag, index) == ~_get_cache_valid(m, tag, index)

\* if not self._driver_operation_simulate and not self._get_cache_valid(index=index)
MustQuery(m, tag, index) == ~simulate /\ ~_get_cache_valid(m, tag, index)

\* if not self._driver_operation_simulate   (the guard of a setter's write)
MustWrite == ~simulate

----------------------------------------------------------------------------
(* output enabled *)

_get_output_enabled(m, index, env) ==
    IF MustQuery(m, "output_enabled", index)
    THEN LET m1 == _ask(m, env, ":%s?", <<ListGet(output_name, index)>>, env.reply)
         IN IF m1.exc # "none" THEN m1
            ELSE LET m2 == Store(m1, "output_enabled", index, BoolOfInt(env.reply))
                     m3 == _set_cache_valid(m2, TRUE, "output_enabled", index)
                 IN Return(m3, Slot(m3, "output_enabled", index))
    ELSE Return(m, Slot(m, "output_enabled", index))

\* mutant: a setter that leaves the cache flag invalid after its write
_set_output_enabled_Invalidate(m, index, v, env) ==
    LET m1 == IF MustWrite
              THEN _write(m, env, ":%s %d", <<ListGet(output_name, index), FormatD(v)>>)
              ELSE m
    IN IF m1.exc # "none" THEN m1
       ELSE _set_cache_valid(Store(m1, "output_enabled", index, v), FALSE, "output_enabled", index)

_set_output_enabled(m, index, v, env) ==
    LET m1 == IF MustWrite
              THEN _write(m, env, ":%s %d", <<ListGet(output_name, index), FormatD(v)>>)
              ELSE m
    IN IF m1.exc # "none" THEN m1
       ELSE _set_cache_valid(Store(m1, "output_enabled", index, v), TRUE, "output_enabled", index)

----------------------------------------------------------------------------
(* output impedance *)

_get_output_impedance(m, index, env) ==
    IF MustQuery(m, "output_impedance", index)
    THEN LET m1 == _ask(m, env, ":%s:impedance?", <<ListGet(output_name, index)>>, env.reply)
         IN IF m1.exc # "none" THEN m1
            ELSE LET m2 == IF env.reply = "OMEG" THEN Store(m1, "output_impedance", index, "HighZ")
                           ELSE IF env.reply = "FIFT" THEN Store(m1, "output_impedance", index, "50Ohms")
                           ELSE m1
                     m3 == _set_cache_valid(m2, TRUE, "output_impedance", index)
                 IN Return(m3, Slot(m3, "output_impedance", index))
    ELSE Return(m, Slot(m, "output_impedance", index))

_set_output_impedance(m, index, v, env) ==
    LET m1 == IF MustWrite
              THEN IF v = "HighZ"
                   THEN _write(m, env, ":%s:impedance OMEG", <<ListGet(output_name, index)>>)
                   ELSE IF v = "50Ohms"
                   THEN _write(m, env, ":%s:impedance FIFTY", <<ListGet(output_name, index)>>)
                   ELSE m
              ELSE m
    IN IF m1.exc # "none" THEN m1
       ELSE _set_cache_valid(Store(m1, "output_impedance", index, v), TRUE, "output_impedance", index)

----------------------------------------------------------------------------
(* The numeric attributes: the six getters and six setters share one shape *)

\* resp = self._ask(fmt % source_name[index]); list[index] = float(resp);
\* self._set_cache_valid(index=index); return list[index]
NumericGet(m, index, env, tag, fmt, reply) ==
    IF MustQuery(m, tag, index)
    THEN LET m1 == _ask(m, env, fmt, <<ListGet(source_name, index)>>, reply)
         IN IF m1.exc # "none" THEN m1
            ELSE LET m2 == Store(m1, tag, index, reply)
                     m3 == _set_cache_valid(m2, TRUE, tag, index)
                 IN Return(m3, Slot(m3, tag, index))
    ELSE Return(m, Slot(m, tag, index))

\* mutant: the slot and the cache flag are written before the command is sent
NumericWrite_StoreFirst(m, index, v, env, tag, fmt) ==
    LET m1 == _set_cache_valid(Store(m, tag, index, v), TRUE, tag, index)
    IN IF MustWrite
       THEN _write(m1, env, fmt, <<ListGet(source_name, index), FormatE(v)>>)
       ELSE m1

\* if not simulate: self._write(fmt % (source_name[index], value));
\* list[index] = value; self._set_cache_valid(index=index)
NumericWrite(m, index, v, env, tag, fmt) ==
    LET m1 == IF MustWrite
              THEN _write(m, env, fmt, <<ListGet(source_name, index), FormatE(v)>>)
              ELSE m
    IN IF m1.exc # "none" THEN m1
       ELSE _set_cache_valid(Store(m1, tag, index, v), TRUE, tag, index)

\* mutant: the lower bound itself is refused
FrequencyOutOfRange_Strict(v) == v <= FrequencyMin \/ v > FrequencyMax

FrequencyOutOfRange(v) == v < FrequencyMin \/ v > FrequencyMax
StartPhaseOutOfRange(v) == v < StartPhaseMin \/ v > StartPhaseMax
SymmetryOutOfRange(v) == v < SymmetryMin \/ v > SymmetryMax
AmplitudeOutOfRange(v) == v < AmplitudeMin \/ v > AmplitudeMax
DutyCycleOutOfRange(v) == v < DutyCycleMin \/ v > DutyCycleMax

_get_output_standard_waveform_frequency(m, index, env) ==
    NumericGet(m, index, env, "output_standard_waveform_frequency", ":%s:frequency?", env.reply)

_set_output_standard_waveform_frequency(m, index, v, env) ==
    IF FrequencyOutOfRange(v) THEN Raise(m, "OutOfRangeException")
    ELSE NumericWrite(m, index, v, env, "output_standard_waveform_frequency", ":%s:frequency %e")

_get_output_standard_waveform_start_phase(m, index, env) ==
    NumericGet(m, index, env, "output_standard_waveform_start_phase", ":%s:phase?", env.reply)

_set_output_standard_waveform_start_phase(m, index, v, env) ==
    IF StartPhaseOutOfRange(v) THEN Raise(m, "OutOfRangeException")
    ELSE NumericWrite(m, index, v, env, "output_standard_waveform_start_phase", ":%s:phase %e")

_get_output_standard_waveform_symmetry(m, index, env) ==
    NumericGet(m, index, env, "output_standard_waveform_symmetry",
               ":%s:function:ramp:symmetry?", env.sym)

_set_output_standard_waveform_symmetry(m, index, v, env) ==
    IF SymmetryOutOfRange(v) THEN Raise(m, "OutOfRangeException")
    ELSE NumericWrite(m, index, v, env, "output_standard_waveform_symmetry",
                      ":%s:function:ramp:symmetry %e")

_get_output_standard_waveform_amplitude(m, index, env) ==
    NumericGet(m, index, env, "output_standard_waveform_amplitude", ":%s:voltage?", env.reply)

_set_output_standard_waveform_amplitude(m, index, v, env) ==
    IF AmplitudeOutOfRange(v) THEN Raise(m, "OutOfRangeException")
    ELSE NumericWrite(m, index, v, env, "output_standard_waveform_amplitude", ":%s:voltage %e")

_get_output_standard_waveform_dc_offset(m, index, env) ==
    NumericGet(m, index, env, "output_standard_waveform_dc_offset", ":%s:voltage:offset?", env.reply)

_set_output_standard_waveform_dc_offset(m, index, v, env) ==
    NumericWrite(m, index, v, env, "output_standard_waveform_dc_offset", ":%s:voltage:offset %e")

_get_output_standard_waveform_duty_cycle_high(m, index, env) ==
    NumericGet(m, index, env, "output_standard_waveform_duty_cycle_high", ":%s:pulse:dcycle?", env.reply)

_set_output_standard_waveform_duty_cycle_high(m, index, v, env) ==
    IF DutyCycleOutOfRange(v) THEN Raise(m, "OutOfRangeException")
    ELSE NumericWrite(m, index, v, env, "output_standard_waveform_duty_cycle_high", ":%s:pulse:dcycle %e")

----------------------------------------------------------------------------
(* waveform shape, with its coupling to symmetry and to the output mode *)

\* self._output_standard_waveform_waveform[index] = resp; self._set_cache_valid(index=index);
\* return self._output_standard_waveform_waveform[index]
WaveformReadDone(m, index, resp) ==
    LET m1 == Store(m, "output_standard_waveform_waveform", index, resp)
        m2 == _set_cache_valid(m1, TRUE, "output_standard_waveform_waveform", index)
    IN Return(m2, Slot(m2, "output_standard_waveform_waveform", index))

\* the classification of the ramp family by symmetry
RampFamilyRead(m, index, env) ==
    LET s1 == _get_output_standard_waveform_symmetry(m, index, env)
    IN IF s1.exc # "none" THEN s1
       ELSE IF s1.ret <= RampDownMax THEN WaveformReadDone(s1, index, "ramp_down")
       ELSE LET s2 == _get_output_standard_waveform_symmetry(s1, index, env)
            IN IF s2.exc # "none" THEN s2
               ELSE IF s2.ret >= RampUpMin THEN WaveformReadDone(s2, index, "ramp_up")
               ELSE WaveformReadDone(s2, index, "triangle")

_get_output_standard_waveform_waveform(m, index, env) ==
    IF MustQuery(m, "output_standard_waveform_waveform", index)
    THEN LET m1 == _ask(m, env, ":%s:function?", <<ListGet(source_name, index)>>, env.reply)
             low == Lower(env.reply)
             resp == IF low = "arbitrary" THEN "sine" ELSE low
             keys == KeysOf(resp)
         IN IF m1.exc # "none" THEN m1
            ELSE IF keys = {} THEN Raise(m1, "IndexError")
            ELSE LET key == CHOOSE k \in keys : TRUE
                 IN IF key = "ramp_up" THEN RampFamilyRead(m1, index, env)
                    ELSE WaveformReadDone(m1, index, key)
    ELSE Return(m, Slot(m, "output_standard_waveform_waveform", index))

\* the symmetry forced by a write of triangle / ramp_up / ramp_down
CoupledSymmetryWrite(m, index, v, env) ==
    IF v = "triangle"
    THEN LET s1 == _get_output_standard_waveform_symmetry(m, index, env)
         IN IF s1.exc # "none" THEN s1
            ELSE IF s1.ret <= RampDownMax
            THEN _set_output_standard_waveform_symmetry(s1, index, TriangleSymmetry, env)
            ELSE LET s2 == _get_output_standard_waveform_symmetry(s1, index, env)
                 IN IF s2.exc # "none" THEN s2
                    ELSE IF s2.ret >= RampUpMin
                    THEN _set_output_standard_waveform_symmetry(s2, index, TriangleSymmetry, env)
                    ELSE s2
    ELSE IF v = "ramp_up"
    THEN _set_output_standard_waveform_symmetry(m, index, RampUpSymmetry, env)
    ELSE IF v = "ramp_down"
    THEN _set_output_standard_waveform_symmetry(m, index, RampDownSymmetry, env)
    ELSE m

\* mutant: the output mode is left as it was
WaveformWriteDone_NoMode(m, index, v) ==
    LET m1 == Store(m, "output_standard_waveform_waveform", index, v)
        m2 == _set_cache_valid(m1, TRUE, "output_standard_waveform_waveform", index)
    IN Return(m2, "None")

\* the tail of the waveform setter: the waveform slot, then the output mode
WaveformWriteDone(m, index, v) ==
    LET m1 == Store(m, "output_standard_waveform_waveform", index, v)
        m2 == _set_cache_valid(m1, TRUE, "output_standard_waveform_waveform", index)
        m3 == Store(m2, "output_mode", index, "function")
        m4 == _set_cache_valid(m3, TRUE, "output_mode", index)
    IN Return(m4, "None")

_set_output_standard_waveform_waveform(m, index, v, env) ==
    IF v \notin DOMAIN StandardWaveformMapping THEN Raise(m, "ValueNotSupportedException")
    ELSE IF MustWrite
    THEN LET m1 == _write(m, env, ":%s:function %s",
                          <<ListGet(source_name, index), StandardWaveformMapping[v]>>)
         IN IF m1.exc # "none" THEN m1
            ELSE LET m2 == CoupledSymmetryWrite(m1, index, v, env)
                 IN IF m2.exc # "none" THEN m2 ELSE WaveformWriteDone(m2, index, v)
    ELSE WaveformWriteDone(m, index, v)

\* The setter of the output-mode attribute (generic set contract: validate against
\* the enumeration, send the command unless simulating, store, mark the cache valid)
_set_output_mode(m, index, v, env) ==
    IF v \notin OutputMode THEN Raise(m, "ValueNotSupportedException")
    ELSE LET m1 == IF MustWrite
                   THEN _write(m, env, "output_mode", <<ListGet(output_name, index), v>>)
                   ELSE m
         IN IF m1.exc # "none" THEN m1
            ELSE _set_cache_valid(Store(m1, "output_mode", index, v), TRUE, "output_mode", index)

----------------------------------------------------------------------------
(* bulk output settings (the APPLY command) *)

DictPut(d, k, v) == [x \in DOMAIN d \cup {k} |-> IF x = k THEN v ELSE d[x]]

SettingsPut(m, k, v) == [m EXCEPT !.output_settings = DictPut(@, k, v)]

\* the body of the query branch of _get_output_settings, after the query;
\* settings is resp.split(','), a sequence of tokens
ParseApply(m, index, settings) ==
    LET low == Lower(settings[1])
        keys == KeysOf(low)
        wtype == CHOOSE k \in keys : TRUE
        m1 == SettingsPut(m, "wtype", wtype)
        m2 == SettingsPut(m1, "amplitude", settings[3])
        m3 == SettingsPut(m2, "offset", settings[4])
        m4 == SettingsPut(m3, "freq", settings[2])
        m5 == SettingsPut(m4, "startphase", settings[5])
    IN IF keys = {} THEN Raise(m, "IndexError")
       ELSE IF Len(settings) < 3 THEN Raise(m1, "IndexError")
       ELSE IF Len(settings) < 4 THEN Raise(m2, "IndexError")
       ELSE IF wtype # "noise"
            THEN IF Len(settings) < 5 THEN Raise(m4, "IndexError")
                 ELSE _set_cache_valid(m5, TRUE, "output_settings", index)
            ELSE _set_cache_valid(m3, TRUE, "output_settings", index)

_get_output_settings(m, index, env) ==
    LET m0 == [m EXCEPT !.output_settings = EmptyDict]
    IN IF MustQuery(m0, "output_settings", index)
       THEN LET m1 == _ask(m0, env, ":%s:apply?", <<ListGet(source_name, index)>>, env.reply)
            IN IF m1.exc # "none" THEN m1
               ELSE LET m2 == ParseApply(m1, index, env.reply)
                    IN IF m2.exc # "none" THEN m2 ELSE Return(m2, m2.output_settings)
       ELSE Return(m0, m0.output_settings)

\* a is the argument record [wtype, amplitude, offset, freq, startphase]
_set_output_settings(m, index, a, env) ==
    IF a.wtype \notin DOMAIN StandardWaveformMapping THEN Raise(m, "KeyError")
    ELSE LET wtype == StandardWaveformMapping[a.wtype]
             m1 == IF MustQuery(m, "output_settings", index)
                   THEN LET w == IF wtype = "NOISE"
                                 THEN _write(m, env, ":%s:APPLY:NOISE %s, %s",
                                             <<ListGet(source_name, index), a.amplitude, a.offset>>)
                                 ELSE _write(m, env, ":%s:APPLY:%s %s, %s, %s, %s",
                                             <<ListGet(source_name, index), wtype, a.freq,
                                               a.amplitude, a.offset, a.startphase>>)
                        IN IF w.exc # "none" THEN w
                           ELSE _set_cache_valid(w, TRUE, "output_settings", index)
                   ELSE m
         IN IF m1.exc # "none" THEN m1
            ELSE _set_cache_valid(m1, TRUE, "output_settings", index)

----------------------------------------------------------------------------
(* digital waveform fetch (rigolMSO5072) *)

\* int(float(x)) for a field given in tenths: truncation toward zero
IntOfTenths(x) == IF x >= 0 THEN x \div 10 ELSE -((-x) \div 10)

\* mutant: the samples counted from one instead of zero
TimedSamples_OneBased(data_list, xinc, xorg, xref) ==
    [j \in 1 .. Len(data_list) |-> <<(j - xref) * xinc + xorg, data_list[j]>>]

\* [((k-xref)*xinc + xorg, e) for k,e in enumerate(data_list)]
TimedSamples(data_list, xinc, xorg, xref) ==
    [j \in 1 .. Len(data_list) |-> <<((j - 1) - xref) * xinc + xorg, data_list[j]>>]

\* mutant: the fetch without its simulate test
_measurement_fetch_waveform_digital_NoSimulate(m, index, env) ==
    LET m1 == _write(m, env, ":waveform:source %s", <<index>>)
        m2 == _ask(m1, env, ":waveform:preamble?", <<>>, env.preamble)
        p == env.preamble
        m3 == _ask_for_ieee_block(m2, env, ":WAVeform:DATA?", env.block)
        m4 == _read_raw(m3, env)
    IN IF m1.exc # "none" THEN m1
       ELSE IF m2.exc # "none" THEN m2
       ELSE IF Len(p) < 7 THEN Raise(m2, "IndexError")
       ELSE IF m3.exc # "none" THEN m3
       ELSE IF m4.exc # "none" THEN m4
       ELSE Return(m4, TimedSamples(env.block, p[5], p[6], IntOfTenths(p[7])))

\* preamble is the reply split at ','; its field 6 (0-based) is given in tenths
_measurement_fetch_waveform_digital(m, index, env) ==
    IF simulate THEN Return(m, <<>>)
    ELSE LET m1 == _write(m, env, ":waveform:source %s", <<index>>)
             m2 == _ask(m1, env, ":waveform:preamble?", <<>>, env.preamble)
             p == env.preamble
             m3 == _ask_for_ieee_block(m2, env, ":WAVeform:DATA?", env.block)
             m4 == _read_raw(m3, env)
         IN IF m1.exc # "none" THEN m1
            ELSE IF m2.exc # "none" THEN m2
            ELSE IF Len(p) < 7 THEN Raise(m2, "IndexError")
            ELSE IF m3.exc # "none" THEN m3
            ELSE IF m4.exc # "none" THEN m4
            ELSE Return(m4, TimedSamples(env.block, p[5], p[6], IntOfTenths(p[7])))

----------------------------------------------------------------------------
(* History: the device side, read off the Transport calls that went through *)

IndexOfName(names, n) == CHOOSE i \in OutputIndices : ListGet(names, i) = n

\* the neutral symbol of a waveform token, under the driver's own table
NeutralWaveform(token) ==
    IF KeysOf(token) = {} THEN token ELSE CHOOSE k \in KeysOf(token) : TRUE

\* the settings a complete APPLY tuple <<type, freq, amplitude, offset, phase>> stands for
SettingsOfTuple(t) ==
    [wtype |-> NeutralWaveform(Lower(t[1])), freq |-> t[2], amplitude |-> t[3],
     offset |-> t[4], startphase |-> t[5]]

Heard(dev, tag, index, v) == [dev EXCEPT ![tag][index] = [known |-> TRUE, v |-> v]]

\* what each wire format is about: the attribute, the list naming the addressee
\* (output_name or source_name), and how the value is carried
\* (reply: the query's reply, arg: the second argument, or a fixed symbol)
WireInfo ==
    LET W(tag, names, how) == [tag |-> tag, names |-> names, how |-> how]
        std == "output_standard_waveform_"
    IN (":%s?" :> W("output_enabled", "output", "reply"))
    @@ (":%s %d" :> W("output_enabled", "output", "arg"))
    @@ (":%s:impedance?" :> W("output_impedance", "output", "reply"))
    @@ (":%s:impedance OMEG" :> W("output_impedance", "output", "HighZ"))
    @@ (":%s:impedance FIFTY" :> W("output_impedance", "output", "50Ohms"))
    @@ ("output_mode" :> W("output_mode", "output", "arg"))
    @@ (":%s:frequency?" :> W(std \o "frequency", "source", "reply"))
    @@ (":%s:frequency %e" :> W(std \o "frequency", "source", "arg"))
    @@ (":%s:phase?" :> W(std \o "start_phase", "source", "reply"))
    @@ (":%s:phase %e" :> W(std \o "start_phase", "source", "arg"))
    @@ (":%s:function:ramp:symmetry?" :> W(std \o "symmetry", "source", "reply"))
    @@ (":%s:function:ramp:symmetry %e" :> W(std \o "symmetry", "source", "arg"))
    @@ (":%s:voltage?" :> W(std \o "amplitude", "source", "reply"))
    @@ (":%s:voltage %e" :> W(std \o "amplitude", "source", "arg"))
    @@ (":%s:voltage:offset?" :> W(std \o "dc_offset", "source", "reply"))
    @@ (":%s:voltage:offset %e" :> W(std \o "dc_offset", "source", "arg"))
    @@ (":%s:pulse:dcycle?" :> W(std \o "duty_cycle_high", "source", "reply"))
    @@ (":%s:pulse:dcycle %e" :> W(std \o "duty_cycle_high", "source", "arg"))
    @@ (":%s:function?" :> W(std \o "waveform", "source", "reply"))
    @@ (":%s:function %s" :> W(std \o "waveform", "source", "arg"))
    @@ (":%s:apply?" :> W("output_settings", "source", "reply"))
    @@ (":%s:APPLY:%s %s, %s, %s, %s" :> W("output_settings", "source", "arg"))
    @@ (":%s:APPLY:NOISE %s, %s" :> W("output_settings", "source", "noise"))

\* the neutral value a call that went through tells about the device
WireValue(w, c) ==
    LET raw == IF w.how = "reply" THEN c.reply ELSE c.args[2]
    IN CASE w.how \notin {"reply", "arg"} /\ w.tag = "output_impedance" -> w.how
         [] w.tag = "output_enabled" -> BoolOfInt(raw)
         [] w.tag = "output_impedance" ->
                IF raw = "OMEG" THEN "HighZ" ELSE IF raw = "FIFT" THEN "50Ohms" ELSE raw
         [] w.tag = "output_standard_waveform_waveform" -> NeutralWaveform(Lower(raw))
         [] w.tag = "output_settings" /\ w.how = "reply" ->
                IF Len(raw) = 5 THEN SettingsOfTuple(raw) ELSE [raw |-> raw]
         [] w.tag = "output_settings" /\ w.how = "arg" ->
                SettingsOfTuple(<<c.args[2], c.args[3], c.args[4], c.args[5], c.args[6]>>)
         [] w.tag = "output_settings" /\ w.how = "noise" ->
                [wtype |-> "nois", amplitude |-> c.args[2], offset |-> c.args[3]]
         [] OTHER -> raw

DeviceEffect(dev, c) ==
    IF c.failed \/ c.fmt \notin DOMAIN WireInfo THEN dev
    ELSE LET w == WireInfo[c.fmt]
             index == IndexOfName(IF w.names = "output" THEN output_name ELSE source_name,
                                  c.args[1])
             d1 == Heard(dev, w.tag, index, WireValue(w, c))
         IN \* a waveform command also switches the device to function mode
            IF c.fmt = ":%s:function %s" THEN Heard(d1, "output_mode", index, "function")
            ELSE d1

RECURSIVE DeviceAfter(_, _)
DeviceAfter(dev, calls) ==
    IF calls = <<>> THEN dev
    ELSE DeviceAfter(DeviceEffect(dev, Head(calls)), Tail(calls))

----------------------------------------------------------------------------
(* The state after construction *)

\* what _init_outputs appends to each list (the fgen lists get the base classes' defaults)
DefaultOf(tag) ==
    CASE tag = "output_enabled" -> FALSE
      [] tag = "output_impedance" -> "50"
      [] tag = "output_mode" -> "function"
      [] tag = "output_standard_waveform_symmetry" -> DefaultSymmetry
      [] tag = "output_standard_waveform_waveform" -> "sine"
      [] tag = "output_settings" -> EmptyDict
      [] OTHER -> 0

Init ==
    /\ simulate \in BOOLEAN
    /\ value = [t \in ListTags |-> [k \in 1 .. OutputCount |-> DefaultOf(t)]]
    /\ output_settings = EmptyDict
    /\ cache_valid = [t \in Tags |-> [i \in OutputIndices |-> FALSE]]
    /\ device = [t \in Tags |-> [i \in OutputIndices |-> [known |-> FALSE, v |-> DefaultOf(t)]]]
    /\ pre = [value |-> value, cache_valid |-> cache_valid, output_settings |-> output_settings]
    /\ last = [op |-> "__init__", index |-> 0, arg |-> "None", exc |-> "none",
               ret |-> "None", calls |-> <<>>]
    /\ nops = 0

----------------------------------------------------------------------------
(* The inputs and the Transport's answers explored *)

\* A behaviour of the Transport during one call: which of the handler's Transport
\* calls raises (0: none), the reply to its query, the reply to a symmetry query
Env(f, r, s) == [fail_at |-> f, reply |-> r, sym |-> s]

Default(S) == CHOOSE x \in S : TRUE

\* (when simulating no handler reaches the Transport, so nothing can raise)
FailOne == IF simulate THEN {0} ELSE {0, 1}       \* a handler with one Transport call
FailNested == IF simulate THEN {0} ELSE 0 .. 3    \* a waveform write issues up to three calls
FailFetch == IF simulate THEN {0} ELSE 0 .. 4     \* a fetch issues four calls

SymmetryQuery == ":%s:function:ramp:symmetry?"

\* A behaviour is explored once: a choice the call never consulted (a failure
\* position beyond the calls issued, the reply to a query that was not made)
\* is held at its default d.
Exercised(env, d, calls) ==
    /\ env.fail_at <= Len(calls)
    /\ env.reply # d.reply =>
          \E k \in DOMAIN calls :
              calls[k].kind = "ask" /\ ~calls[k].failed /\ calls[k].fmt # SymmetryQuery
    /\ env.sym # d.sym =>
          \E k \in DOMAIN calls : ~calls[k].failed /\ calls[k].fmt = SymmetryQuery

EnabledReplies == {0, 1}
ImpedanceInputs == {"HighZ", "50Ohms", "75Ohms"}
ImpedanceReplies == {"OMEG", "FIFT", "FIFTY"}
ModeInputs == {"function", "arbitrary", "burst"}
FrequencyInputs == {FrequencyMin - 1, FrequencyMin, FrequencyMax, FrequencyMax + 100000000}
FrequencyReplies == {10000}
StartPhaseInputs == {StartPhaseMin - 1, StartPhaseMin, StartPhaseMax, StartPhaseMax + 1}
StartPhaseReplies == {90}
SymmetryInputs == {SymmetryMin - 1, SymmetryMin, 95, SymmetryMax, SymmetryMax + 1}
SymmetryReplies == {5, 95}
AmplitudeInputs == {5, AmplitudeMin, AmplitudeMax, AmplitudeMax + 1}
AmplitudeReplies == {1000}
DcOffsetInputs == {-2500}
DcOffsetReplies == {500}
DutyCycleInputs == {DutyCycleMin - 1, DutyCycleMin, DutyCycleMax, DutyCycleMax + 1}
DutyCycleReplies == {50}
WaveformInputs == {"sin", "ramp", "ramp_up", "ramp_down", "triangle", "bogus"}
WaveformReplies == {"SIN", "RAMP", "ARBITRARY"}
SettingsInputs ==
    {[wtype |-> w, amplitude |-> a, offset |-> "0.0", freq |-> "1000", startphase |-> "0"] :
        w \in {"sin", "nois", "noise"}, a \in {"1.0"}}
SettingsReplies ==
    {<<"SIN", "1000", "1.0", "0.0", "0">>, <<"NOIS", "1000", "2.0", "0.0", "0">>,
     <<"NOIS", "2.0", "0.0">>}
FetchSources == {"d0"}
Preambles == {<<0, 0, 2, 1, 2, -3, 15, 0, 0, 0>>, <<0, 0, 2>>}
\* one block per length: its k-th byte is 255, 254, ...
Blocks == {[k \in 1 .. n |-> 256 - k] : n \in 0 .. MaxBlockLen}

----------------------------------------------------------------------------
(* Actions: one per handler *)

\* a session makes at most MaxOps calls
Ready == nops < MaxOps

\* the effect of a call op(index, arg) that ends in machine record m
Call(op, index, arg, env, d, result) ==
    LET m == result
    IN /\ Exercised(env, d, m.calls)
       /\ value' = m.value
       /\ output_settings' = m.output_settings
       /\ cache_valid' = m.cache_valid
       /\ device' = DeviceAfter(device, m.calls)
       /\ pre' = [value |-> value, cache_valid |-> cache_valid, output_settings |-> output_settings]
       /\ last' = [op |-> op, index |-> index, arg |-> arg, exc |-> m.exc,
                   ret |-> IF m.exc = "none" THEN m.ret ELSE "None", calls |-> m.calls]
       /\ nops' = nops + 1
       /\ UNCHANGED simulate

get_output_enabled ==
    /\ Ready
    /\ \E index \in OutputIndices, f \in FailOne, r \in EnabledReplies :
          LET env == Env(f, r, 0)
          IN Call("get_output_enabled", index, "None", env, Env(0, Default(EnabledReplies), 0),
                  _get_output_enabled(Machine, index, env))

set_output_enabled ==
    /\ Ready
    /\ \E index \in OutputIndices, v \in BOOLEAN, f \in FailOne :
          LET env == Env(f, 0, 0)
          IN Call("set_output_enabled", index, v, env, Env(0, 0, 0),
                  _set_output_enabled(Machine, index, v, env))

get_output_impedance ==
    /\ Ready
    /\ \E index \in OutputIndices, f \in FailOne, r \in ImpedanceReplies :
          LET env == Env(f, r, 0)
          IN Call("get_output_impedance", index, "None", env, Env(0, Default(ImpedanceReplies), 0),
                  _get_output_impedance(Machine, index, env))

set_output_impedance ==
    /\ Ready
    /\ \E index \in OutputIndices, v \in ImpedanceInputs, f \in FailOne :
          LET env == Env(f, 0, 0)
          IN Call("set_output_impedance", index, v, env, Env(0, 0, 0),
                  _set_output_impedance(Machine, index, v, env))

set_output_mode ==
    /\ Ready
    /\ \E index \in OutputIndices, v \in ModeInputs, f \in FailOne :
          LET env == Env(f, 0, 0)
          IN Call("set_output_mode", index, v, env, Env(0, 0, 0),
                  _set_output_mode(Machine, index, v, env))

get_output_settings ==
    /\ Ready
    /\ \E index \in OutputIndices, f \in FailOne, r \in SettingsReplies :
          LET env == Env(f, r, 0)
          IN Call("get_output_settings", index, "None", env, Env(0, Default(SettingsReplies), 0),
                  _get_output_settings(Machine, index, env))

set_output_settings ==
    /\ Ready
    /\ \E index \in OutputIndices, v \in SettingsInputs, f \in FailOne :
          LET env == Env(f, 0, 0)
          IN Call("set_output_settings", index, v, env, Env(0, 0, 0),
                  _set_output_settings(Machine, index, v, env))

get_output_standard_waveform_frequency ==
    /\ Ready
    /\ \E index \in OutputIndices, f \in FailOne, r \in FrequencyReplies :
          LET env == Env(f, r, 0)
          IN Call("get_output_standard_waveform_frequency", index, "None", env, Env(0, Default(FrequencyReplies), 0),
                  _get_output_standard_waveform_frequency(Machine, index, env))

set_output_standard_waveform_frequency ==
    /\ Ready
    /\ \E index \in OutputIndices, v \in FrequencyInputs, f \in FailOne :
          LET env == Env(f, 0, 0)
          IN Call("set_output_standard_waveform_frequency", index, v, env, Env(0, 0, 0),
                  _set_output_standard_waveform_frequency(Machine, index, v, env))

get_output_standard_waveform_start_phase ==
    /\ Ready
    /\ \E index \in OutputIndices, f \in FailOne, r \in StartPhaseReplies :
          LET env == Env(f, r, 0)
          IN Call("get_output_standard_waveform_start_phase", index, "None", env, Env(0, Default(StartPhaseReplies), 0),
                  _get_output_standard_waveform_start_phase(Machine, index, env))

set_output_standard_waveform_start_phase ==
    /\ Ready
    /\ \E index \in OutputIndices, v \in StartPhaseInputs, f \in FailOne :
          LET env == Env(f, 0, 0)
          IN Call("set_output_standard_waveform_start_phase", index, v, env, Env(0, 0, 0),
                  _set_output_standard_waveform_start_phase(Machine, index, v, env))

get_output_standard_waveform_waveform ==
    /\ Ready
    /\ \E index \in OutputIndices, f \in FailNested, r \in WaveformReplies, s \in SymmetryReplies :
          LET env == Env(f, r, s)
          IN Call("get_output_standard_waveform_waveform", index, "None", env,
                  Env(0, Default(WaveformReplies), Default(SymmetryReplies)),
                  _get_output_standard_waveform_waveform(Machine, index, env))

set_output_standard_waveform_waveform ==
    /\ Ready
    /\ \E index \in OutputIndices, v \in WaveformInputs, f \in FailNested, s \in SymmetryReplies :
          LET env == Env(f, 0, s)
          IN Call("set_output_standard_waveform_waveform", index, v, env,
                  Env(0, 0, Default(SymmetryReplies)),
                  _set_output_standard_waveform_waveform(Machine, index, v, env))

get_output_standard_waveform_symmetry ==
    /\ Ready
    /\ \E index \in OutputIndices, f \in FailOne, s \in SymmetryReplies :
          LET env == Env(f, 0, s)
          IN Call("get_output_standard_waveform_symmetry", index, "None", env, Env(0, 0, Default(SymmetryReplies)),
                  _get_output_standard_waveform_symmetry(Machine, index, env))

set_output_standard_waveform_symmetry ==
    /\ Ready
    /\ \E index \in OutputIndices, v \in SymmetryInputs, f \in FailOne :
          LET env == Env(f, 0, 0)
          IN Call("set_output_standard_waveform_symmetry", index, v, env, Env(0, 0, 0),
                  _set_output_standard_waveform_symmetry(Machine, index, v, env))

get_output_standard_waveform_amplitude ==
    /\ Ready
    /\ \E index \in OutputIndices, f \in FailOne, r \in AmplitudeReplies :
          LET env == Env(f, r, 0)
          IN Call("get_output_standard_waveform_amplitude", index, "None", env, Env(0, Default(AmplitudeReplies), 0),
                  _get_output_standard_waveform_amplitude(Machine, index, env))

set_output_standard_waveform_amplitude ==
    /\ Ready
    /\ \E index \in OutputIndices, v \in AmplitudeInputs, f \in FailOne :
          LET env == Env(f, 0, 0)
          IN Call("set_output_standard_waveform_amplitude", index, v, env, Env(0, 0, 0),
                  _set_output_standard_waveform_amplitude(Machine, index, v, env))

get_output_standard_waveform_dc_offset ==
    /\ Ready
    /\ \E index \in OutputIndices, f \in FailOne, r \in DcOffsetReplies :
          LET env == Env(f, r, 0)
          IN Call("get_output_standard_waveform_dc_offset", index, "None", env, Env(0, Default(DcOffsetReplies), 0),
                  _get_output_standard_waveform_dc_offset(Machine, index, env))

set_output_standard_waveform_dc_offset ==
    /\ Ready
    /\ \E index \in OutputIndices, v \in DcOffsetInputs, f \in FailOne :
          LET env == Env(f, 0, 0)
          IN Call("set_output_standard_waveform_dc_offset", index, v, env, Env(0, 0, 0),
                  _set_output_standard_waveform_dc_offset(Machine, index, v, env))

get_output_standard_waveform_duty_cycle_high ==
    /\ Ready
    /\ \E index \in OutputIndices, f \in FailOne, r \in DutyCycleReplies :
          LET env == Env(f, r, 0)
          IN Call("get_output_standard_waveform_duty_cycle_high", index, "None", env, Env(0, Default(DutyCycleReplies), 0),
                  _get_output_standard_waveform_duty_cycle_high(Machine, index, env))

set_output_standard_waveform_duty_cycle_high ==
    /\ Ready
    /\ \E index \in OutputIndices, v \in DutyCycleInputs, f \in FailOne :
          LET env == Env(f, 0, 0)
          IN Call("set_output_standard_waveform_duty_cycle_high", index, v, env, Env(0, 0, 0),
                  _set_output_standard_waveform_duty_cycle_high(Machine, index, v, env))

\* the preamble is consulted from the second call on, the block from the third
measurement_fetch_waveform_digital ==
    /\ Ready
    /\ \E index \in FetchSources, f \in FailFetch :
        \E p \in IF f \in {1, 2} THEN {Default(Preambles)} ELSE Preambles :
          \E b \in IF f = 0 /\ Len(p) >= 7 THEN Blocks ELSE {Default(Blocks)} :
            LET env == [fail_at |-> f, reply |-> 0, sym |-> 0, preamble |-> p, block |-> b]
            IN Call("measurement_fetch_waveform_digital", index, "None", env,
                    [fail_at |-> 0, reply |-> 0, sym |-> 0],
                    _measurement_fetch_waveform_digital(Machine, index, env))

Next ==
    \/ get_output_enabled
    \/ set_output_enabled
    \/ get_output_impedance
    \/ set_output_impedance
    \/ set_output_mode
    \/ get_output_settings
    \/ set_output_settings
    \/ get_output_standard_waveform_frequency
    \/ set_output_standard_waveform_frequency
    \/ get_output_standard_waveform_start_phase
    \/ set_output_standard_waveform_start_phase
    \/ get_output_standard_waveform_waveform
    \/ set_output_standard_waveform_waveform
    \/ get_output_standard_waveform_symmetry
    \/ set_output_standard_waveform_symmetry
    \/ get_output_standard_waveform_amplitude
    \/ set_output_standard_waveform_amplitude
    \/ get_output_standard_waveform_dc_offset
    \/ set_output_standard_waveform_dc_offset
    \/ get_output_standard_waveform_duty_cycle_high
    \/ set_output_standard_waveform_duty_cycle_high
    \/ measurement_fetch_waveform_digital

Spec == Init /\ [][Next]_vars

----------------------------------------------------------------------------
(* Vocabulary of the properties *)

GetOp(tag) == "get_" \o tag
SetOp(tag) == "set_" \o tag

\* the slot of the last call's index in list tag, now and before the call
Now(tag) == ListGet(value[tag], last.index)
Before(tag) == ListGet(pre.value[tag], last.index)

NoCallFailed == \A k \in DOMAIN last.calls : ~last.calls[k].failed
ACallFailed == \E k \in DOMAIN last.calls : last.calls[k].failed

\* the lists and the cache flags are what they were before the last call
ListsUntouched == value = pre.value /\ cache_valid = pre.cache_valid

RangeChecked ==
    {[tag |-> "output_standard_waveform_frequency", lo |-> FrequencyMin, hi |-> FrequencyMax],
     [tag |-> "output_standard_waveform_start_phase", lo |-> StartPhaseMin, hi |-> StartPhaseMax],
     [tag |-> "output_standard_waveform_symmetry", lo |-> SymmetryMin, hi |-> SymmetryMax],
     [tag |-> "output_standard_waveform_amplitude", lo |-> AmplitudeMin, hi |-> AmplitudeMax],
     [tag |-> "output_standard_waveform_duty_cycle_high", lo |-> DutyCycleMin, hi |-> DutyCycleMax]}

----------------------------------------------------------------------------
(* C1 *)

\* C1: for each range-checked attribute and every output index, a set with a value
\* strictly outside the range raises the out-of-range error, issues no Transport
\* call and leaves the lists and cache flags unchanged; a set with a value at
\* either bound is accepted: unless the Transport raises, it ends without error,
\* the slot holds that value and its cache flag is valid.
C1_RangeCheckedSet ==
    \A a \in RangeChecked :
        last.op = SetOp(a.tag) =>
            /\ (last.arg < a.lo \/ last.arg > a.hi) =>
                  /\ last.exc = "OutOfRangeException"
                  /\ last.calls = <<>>
                  /\ ListsUntouched
            /\ last.arg \in {a.lo, a.hi} =>
                  /\ last.exc \in {"none", "TransportError"}
                  /\ NoCallFailed =>
                        /\ last.exc = "none"
                        /\ Now(a.tag) = last.arg
                        /\ cache_valid[a.tag][last.index]

\* the amplitude was set to its lower bound, and then a set below it was refused
C1_Witness ==
    /\ last.op = "set_output_standard_waveform_amplitude"
    /\ last.arg < AmplitudeMin
    /\ last.exc = "OutOfRangeException"
    /\ Now("output_standard_waveform_amplitude") = AmplitudeMin
    /\ cache_valid["output_standard_waveform_amplitude"][last.index]

----------------------------------------------------------------------------
(* C2 *)

\* C2: for every attribute and output index, simulating or not, a get that
\* immediately follows a successful set(index, v) of the same attribute returns
\* exactly v and issues no Transport query; the bulk output-settings pair included.
C2_GetAfterSet ==
    [][\A t \in Tags \ {"output_mode"} :
          (/\ last.op = SetOp(t) /\ last.exc = "none"
           /\ last'.op = GetOp(t) /\ last'.index = last.index)
          => /\ last'.exc = "none"
             /\ last'.calls = <<>>
             /\ last'.ret = last.arg]_vars

----------------------------------------------------------------------------
(* C3 *)

CachedValue(tag, index) ==
    IF tag = "output_settings" THEN output_settings ELSE ListGet(value[tag], index)

\* C3: when not simulating, a valid cache flag implies that the cached value is the
\* value the device last reported or was last commanded to hold, for every
\* attribute (the bulk settings included) and index.
C3_CacheCoherence ==
    ~simulate =>
        \A t \in Tags, i \in OutputIndices :
            cache_valid[t][i] =>
                /\ device[t][i].known
                /\ CachedValue(t, i) = device[t][i].v

----------------------------------------------------------------------------
(* C4 *)

IsGet(op) == \E t \in Tags : op = GetOp(t)

\* C4: when simulating, no call issues a Transport write, query or block query;
\* every get ends without error and returns the cached / default value (the slot
\* as it was before the call; the empty settings for the bulk read; the empty
\* sequence for the waveform fetch).
C4_SimulateNoTransport ==
    simulate =>
        /\ last.calls = <<>>
        /\ \A t \in ListTags :
              last.op = GetOp(t) => last.exc = "none" /\ last.ret = Before(t) /\ ListsUntouched
        /\ last.op = "get_output_settings" => last.exc = "none" /\ last.ret = EmptyDict
        /\ last.op = "measurement_fetch_waveform_digital" =>
              last.exc = "none" /\ last.ret = <<>> /\ ListsUntouched

\* simulating: a waveform set earlier in the session is read back from the cache
C4_Witness ==
    /\ simulate
    /\ last.op = "get_output_standard_waveform_waveform"
    /\ last.ret = "ramp"
    /\ last.calls = <<>>

----------------------------------------------------------------------------
(* C5 *)

\* C5: a get issues at most one Transport query and no write; with a valid cache
\* flag it issues none; when not simulating with an invalid flag it issues exactly
\* one query and, the reply delivered, ends without error having stored the
\* translated reply, marked the cache valid and returned that value.
C5_GetOneQuery ==
    \A t \in Tags \ {"output_mode"} :
        last.op = GetOp(t) =>
            /\ Len(last.calls) <= 1
            /\ \A k \in DOMAIN last.calls : last.calls[k].kind = "ask"
            /\ pre.cache_valid[t][last.index] => last.calls = <<>>
            /\ (~simulate /\ ~pre.cache_valid[t][last.index]) =>
                  /\ Len(last.calls) = 1
                  /\ NoCallFailed =>
                        /\ last.exc = "none"
                        /\ cache_valid[t][last.index]
                        /\ CachedValue(t, last.index) = device[t][last.index].v
                        /\ last.ret = CachedValue(t, last.index)

----------------------------------------------------------------------------
(* C6 *)

----------------------------------------------------------------------------
(* C7 *)

RampFamily(symmetry) ==
    IF symmetry <= 10 THEN "ramp_down"
    ELSE IF symmetry >= 90 THEN "ramp_up"
    ELSE "triangle"

\* C7: not simulating, the waveform cache invalid, the device reporting the ramp
\* shape: the waveform get returns ramp_down for a symmetry <= 10, ramp_up for a
\* symmetry >= 90 and triangle otherwise.
C7_RampClassification ==
    (/\ last.op = "get_output_standard_waveform_waveform"
     /\ ~simulate
     /\ ~pre.cache_valid["output_standard_waveform_waveform"][last.index]
     /\ NoCallFailed
     /\ last.calls # <<>>
     /\ last.calls[1].reply = "RAMP")
    => /\ last.exc = "none"
       /\ last.ret = RampFamily(Now("output_standard_waveform_symmetry"))

----------------------------------------------------------------------------
(* C8 *)

\* C8: a set of the waveform shape to ramp_up, ramp_down or triangle succeeds
\* (the Transport not raising), and then the symmetry of that index is 100 for
\* ramp_up, 0 for ramp_down, and for triangle 50 when the prior symmetry was
\* <= 10 or >= 90 and unchanged otherwise.
C8_ShapeForcesSymmetry ==
    (/\ last.op = "set_output_standard_waveform_waveform"
     /\ last.arg \in {"ramp_up", "ramp_down", "triangle"}
     /\ NoCallFailed)
    => /\ last.exc = "none"
       /\ last.arg = "ramp_up" => Now("output_standard_waveform_symmetry") = 100
       /\ last.arg = "ramp_down" => Now("output_standard_waveform_symmetry") = 0
       /\ last.arg = "triangle" =>
             Now("output_standard_waveform_symmetry") =
                 IF \/ Before("output_standard_waveform_symmetry") <= 10
                    \/ Before("output_standard_waveform_symmetry") >= 90
                 THEN 50
                 ELSE Before("output_standard_waveform_symmetry")

----------------------------------------------------------------------------
(* C9 *)

\* C9: after every successful set of the waveform shape, simulating or not, the
\* output mode of that index is cached as "function" with a valid cache flag, and
\* no Transport call of the set concerns the output mode: the calls are the
\* waveform command and the coupled symmetry traffic only.
C9_ShapeForcesFunctionMode ==
    (last.op = "set_output_standard_waveform_waveform" /\ last.exc = "none") =>
        /\ Now("output_mode") = "function"
        /\ cache_valid["output_mode"][last.index]
        /\ \A k \in DOMAIN last.calls :
              last.calls[k].fmt \in {":%s:function %s", ":%s:function:ramp:symmetry?",
                                     ":%s:function:ramp:symmetry %e"}
        /\ Len(last.calls) = IF simulate THEN 0 ELSE 1

\* the output was in arbitrary mode when the waveform shape was set
C9_Witness ==
    /\ last.op = "set_output_standard_waveform_waveform"
    /\ last.exc = "none"
    /\ Before("output_mode") = "arbitrary"
    /\ ~simulate

----------------------------------------------------------------------------
(* C10 *)

ImpedanceEnumeration == {"HighZ", "50Ohms"}

\* C10: for the waveform shape and the output impedance, a set with a symbol that
\* is not in the attribute's enumeration raises the unsupported-value error
\* before any Transport call and leaves every list and cache flag unchanged.
C10_UnsupportedSymbol ==
    (\/ /\ last.op = "set_output_standard_waveform_waveform"
        /\ last.arg \notin DOMAIN StandardWaveformMapping
     \/ /\ last.op = "set_output_impedance"
        /\ last.arg \notin ImpedanceEnumeration)
    => /\ last.exc = "ValueNotSupportedException"
       /\ last.calls = <<>>
       /\ ListsUntouched

----------------------------------------------------------------------------
(* C11 *)

\* the last call was a waveform-shape get that queried the device and was answered tok
WaveformAnswered(tok) ==
    /\ last.op = "get_output_standard_waveform_waveform"
    /\ last.calls # <<>>
    /\ NoCallFailed
    /\ last.calls[1].reply = tok

\* C11: when the device answers the waveform-shape query with the arbitrary mode,
\* the get does not fail: it returns a symbol of the standard-waveform enumeration,
\* which is then the stored value of that index, with the cache flag valid.
C11_ArbitraryReadsAsSine ==
    WaveformAnswered("ARBITRARY") =>
        /\ last.exc = "none"
        /\ last.ret \in DOMAIN StandardWaveformMapping
        /\ Now("output_standard_waveform_waveform") = last.ret
        /\ cache_valid["output_standard_waveform_waveform"][last.index]

----------------------------------------------------------------------------
(* C12 *)

\* the device token a Transport call carries for an enumerated attribute
TokenOf(c) ==
    CASE c.fmt = ":%s:impedance OMEG" -> "OMEG"
      [] c.fmt = ":%s:impedance FIFTY" -> "FIFTY"
      [] c.fmt = ":%s:function %s" -> c.args[2]
      [] c.fmt = ":%s:impedance?" -> c.reply
      [] c.fmt = ":%s:function?" -> Lower(c.reply)
      [] OTHER -> ""

\* C12: for the waveform shape and the output impedance: when a get has translated
\* a device token into a neutral symbol, a set of that symbol on the same index
\* sends that same token (waveform tokens compared in the lower case the read
\* path reduces them to).
C12_EnumerationRoundTrip ==
    [][\A t \in {"output_standard_waveform_waveform", "output_impedance"} :
          (/\ last.op = GetOp(t) /\ last.exc = "none"
           /\ last.calls # <<>> /\ NoCallFailed
           /\ Now(t) # Before(t)
           /\ last'.op = SetOp(t) /\ last'.index = last.index
           /\ last'.arg = last.ret
           /\ \A k \in DOMAIN last'.calls : ~last'.calls[k].failed)
          => /\ last'.exc = "none"
             /\ Len(last'.calls) = 1
             /\ TokenOf(last'.calls[1]) = TokenOf(last.calls[1])]_vars

----------------------------------------------------------------------------
(* C13 *)

FetchOp == "measurement_fetch_waveform_digital"

\* C13: when simulating, a digital waveform fetch returns the empty sequence,
\* issues no Transport call at all and changes no list, cache flag or settings.
C13_FetchSimulated ==
    (simulate /\ last.op = FetchOp) =>
        /\ last.exc = "none"
        /\ last.ret = <<>>
        /\ last.calls = <<>>
        /\ ListsUntouched
        /\ output_settings = pre.output_settings

\* simulating: a fetch made after an attribute had been set and cached
C13_Witness ==
    /\ simulate
    /\ last.op = FetchOp
    /\ last.ret = <<>>
    /\ \E i \in OutputIndices :
          /\ cache_valid["output_standard_waveform_amplitude"][i]
          /\ ListGet(value["output_standard_waveform_amplitude"], i) = AmplitudeMax

----------------------------------------------------------------------------
(* C14 *)

\* the Transport exchanges of a fetch, in their order
FetchExchanges ==
    <<[kind |-> "write", fmt |-> ":waveform:source %s"],
      [kind |-> "ask", fmt |-> ":waveform:preamble?"],
      [kind |-> "ask_for_ieee_block", fmt |-> ":WAVeform:DATA?"],
      [kind |-> "read_raw", fmt |-> ""]>>

\* C14: when not simulating, the Transport calls of a fetch are an initial part of
\* the fixed order source-select write (naming the requested source), preamble
\* query, block query, flush read; a fetch that ends without error has made all
\* four, and its result has one <<time, sample>> pair per byte of the block, in
\* block order, the pair of the byte at 0-based position k having the time
\* (k - xReference) * xIncrement + xOrigin, with xIncrement, xOrigin, xReference
\* the preamble fields 4, 5, 6 (0-based; xReference its integer part).
C14_FetchOrderAndTimes ==
    (~simulate /\ last.op = FetchOp) =>
        /\ Len(last.calls) \in 1 .. 4
        /\ \A k \in DOMAIN last.calls :
              /\ last.calls[k].kind = FetchExchanges[k].kind
              /\ last.calls[k].fmt = FetchExchanges[k].fmt
        /\ last.calls[1].args = <<last.index>>
        /\ last.exc = "none" =>
              /\ Len(last.calls) = 4
              /\ LET preamble == last.calls[2].reply
                     block == last.calls[3].reply
                     xIncrement == preamble[5]
                     xOrigin == preamble[6]
                     xReference == IntOfTenths(preamble[7])
                 IN /\ Len(last.ret) = Len(block)
                    /\ \A k \in 0 .. Len(block) - 1 :
                          last.ret[k + 1] =
                              <<(k - xReference) * xIncrement + xOrigin, block[k + 1]>>

\* a fetch that delivered a block of two bytes
C14_Witness ==
    /\ ~simulate
    /\ last.op = FetchOp
    /\ last.exc = "none"
    /\ Len(last.ret) = 2
    /\ last.ret[1][1] < last.ret[2][1]
    /\ last.ret[1][2] # last.ret[2][2]

----------------------------------------------------------------------------
(* C15 *)

\* the last call was a bulk settings read that queried the device and was answered
SettingsAnswered ==
    /\ last.op = "get_output_settings"
    /\ last.calls # <<>>
    /\ NoCallFailed

\* float(token) of a reply field, in units of 1/scale
FloatOf(token, scale) ==
    scale * (CASE token = "1.0" -> 1
               [] token = "2.0" -> 2
               [] token = "1000" -> 1000
               [] OTHER -> 0)

\* the attribute slots a complete APPLY reply <<type, freq, amplitude, offset, phase>>
\* reports, in the units of the lists; frequency and start phase not for noise
ReportedSlots(reply) ==
    LET std == "output_standard_waveform_"
        common == (std \o "waveform" :> NeutralWaveform(Lower(reply[1])))
               @@ (std \o "amplitude" :> FloatOf(reply[3], 1000))
               @@ (std \o "dc_offset" :> FloatOf(reply[4], 1000))
    IN IF Lower(reply[1]) = "nois" THEN common
       ELSE common @@ (std \o "frequency" :> FloatOf(reply[2], 10))
                   @@ (std \o "start_phase" :> FloatOf(reply[5], 1))

\* C15: when not simulating, after a bulk settings read that obtained a complete
\* APPLY reply, the individual attributes of that index the reply reports hold the
\* reported values with their cache flags valid.
C15_BulkReadFillsSlots ==
    (SettingsAnswered /\ Len(last.calls[1].reply) = 5) =>
        LET reported == ReportedSlots(last.calls[1].reply)
        IN \A t \in DOMAIN reported :
               /\ cache_valid[t][last.index]
               /\ Now(t) = reported[t]

----------------------------------------------------------------------------
(* C16 *)

\* C16: a bulk settings read answered with the noise waveform ends without error
\* and returns the waveform type, amplitude and offset only; answered with any
\* other waveform it returns all five entries.
C16_NoiseReadSchema ==
    SettingsAnswered =>
        /\ last.exc = "none"
        /\ DOMAIN last.ret =
              IF Lower(last.calls[1].reply[1]) = "nois"
              THEN {"wtype", "amplitude", "offset"}
              ELSE {"wtype", "amplitude", "offset", "freq", "startphase"}

----------------------------------------------------------------------------
(* C17 *)

IsSet(op) == \E t \in Tags : op = SetOp(t)

\* C17: when not simulating, every set that ends without error has sent its
\* command to the Transport, whatever the cache flag of the attribute was before
\* the call (the bulk settings write after an earlier bulk write or read
\* included). A set of a symbol outside the impedance enumeration, which has no
\* command to send, is C10's case and is left out.
C17_SetAlwaysSends ==
    (/\ ~simulate
     /\ IsSet(last.op)
     /\ last.exc = "none"
     /\ last.op = "set_output_impedance" => last.arg \in ImpedanceEnumeration)
    => /\ last.calls # <<>>
       /\ last.calls[1].kind = "write"

----------------------------------------------------------------------------
(* C18 *)

NoiseForm == ":%s:APPLY:NOISE %s, %s"
FourFieldForm == ":%s:APPLY:%s %s, %s, %s, %s"

\* C18: when not simulating, a bulk settings write that reaches the Transport
\* sends, for the noise waveform type, the two-field form with the source name,
\* amplitude and offset, and for any other type the four-field form with the
\* source name, the type, frequency, amplitude, offset and start phase.
C18_ApplyCommandShape ==
    (~simulate /\ last.op = "set_output_settings" /\ last.calls # <<>>) =>
        LET c == last.calls[1]
            a == last.arg
            source == ListGet(source_name, last.index)
        IN /\ Len(last.calls) = 1
           /\ c.kind = "write"
           /\ IF a.wtype \in {"nois", "noise"}
              THEN c.fmt = NoiseForm /\ c.args = <<source, a.amplitude, a.offset>>
              ELSE /\ c.fmt = FourFieldForm
                   /\ c.args = <<source, StandardWaveformMapping[a.wtype], a.freq,
                                 a.amplitude, a.offset, a.startphase>>

----------------------------------------------------------------------------
(* C19 *)

\* the impedance tokens the read path maps to a neutral symbol
ImpedanceReadTokens == {"OMEG", "FIFT"}

\* C19: when the device answers the impedance query with a token that has no
\* mapped neutral symbol, the get fails with the unsupported-value error and
\* leaves every list and cache flag as it was: the cache is not marked valid.
C19_UnmappedTokenRejected ==
    (/\ last.op = "get_output_impedance"
     /\ last.calls # <<>>
     /\ NoCallFailed
     /\ last.calls[1].reply \notin ImpedanceReadTokens)
    => /\ last.exc = "ValueNotSupportedException"
       /\ ListsUntouched

----------------------------------------------------------------------------
(* C20: construction, with _init_outputs invoked repeatedly *)

\* the constructors invoke _init_outputs at most this many times
\* (rigolBaseWG.__init__, then rigolMSO5072.__init__)
MaxInitCalls == 2

SymmetryTag == "output_standard_waveform_symmetry"

\* _init_outputs on the lists v: every list is created anew and filled with one
\* default per output, except the symmetry list, which the method does not
\* create anew (it resets _output_standard_waveform_ramp_symmetry instead) and
\* only appends to
_init_outputs(v) ==
    [t \in ListTags |->
        LET appended == [k \in 1 .. OutputCount |-> DefaultOf(t)]
        IN IF t = SymmetryTag THEN v[t] \o appended ELSE appended]

\* rigolBaseWG.__init__ before its call of _init_outputs: the symmetry list has
\* been created empty, the other lists do not hold anything yet
InitConstruction ==
    /\ simulate \in BOOLEAN
    /\ value = [t \in ListTags |-> <<>>]
    /\ output_settings = EmptyDict
    /\ cache_valid = [t \in Tags |-> [i \in OutputIndices |-> FALSE]]
    /\ device = [t \in Tags |-> [i \in OutputIndices |-> [known |-> FALSE, v |-> DefaultOf(t)]]]
    /\ pre = [value |-> value, cache_valid |-> cache_valid, output_settings |-> output_settings]
    /\ last = [op |-> "__init__", index |-> 0, arg |-> "None", exc |-> "none",
               ret |-> "None", calls |-> <<>>]
    /\ nops = 0

\* the outputs have been initialized at least once
Constructed == Len(value["output_enabled"]) = OutputCount

\* one invocation of _init_outputs by a constructor, before the first call
init_outputs ==
    /\ nops = 0
    /\ Len(value[SymmetryTag]) < MaxInitCalls * OutputCount
    /\ value' = _init_outputs(value)
    /\ pre' = [value |-> value, cache_valid |-> cache_valid, output_settings |-> output_settings]
    /\ last' = [op |-> "_init_outputs", index |-> 0, arg |-> "None", exc |-> "none",
                ret |-> "None", calls |-> <<>>]
    /\ UNCHANGED <<simulate, output_settings, cache_valid, device, nops>>

\* the calls of a session, on a constructed driver
Session == Constructed /\ Next

NextConstruction == init_outputs \/ Session

SpecConstruction == InitConstruction /\ [][NextConstruction]_vars

\* C20: after every invocation of _init_outputs, and from then on, every
\* per-output list, the symmetry list included, has exactly OutputCount entries.
C20_SlotCount ==
    Constructed => \A t \in ListTags : Len(value[t]) = OutputCount

----------------------------------------------------------------------------
(* C21 *)

\* the device name a Transport call of the last call has to address: the
\* output or source name of the call's index, by the command's kind
AddressedName(c) ==
    ListGet(IF WireInfo[c.fmt].names = "output" THEN output_name ELSE source_name,
            last.index)

----------------------------------------------------------------------------
(* C22 *)

\* C22: no call resets a cache flag that was valid before it; when not
\* simulating, a get or a set of an attribute that ends without error leaves
\* the flag of its attribute and index valid; and a get of an attribute whose
\* flag was valid before the call issues no Transport call. Hence after the first
\* successful get or set of an attribute on an index, no later get of it on that
\* index queries the device.
C22_CacheMonotone ==
    /\ \A t \in Tags, i \in OutputIndices : pre.cache_valid[t][i] => cache_valid[t][i]
    /\ \A t \in Tags :
          (last.op \in {GetOp(t), SetOp(t)} /\ last.exc = "none" /\ ~simulate)
          => cache_valid[t][last.index]
    /\ \A t \in Tags :
          (last.op = GetOp(t) /\ pre.cache_valid[t][last.index])
          => last.calls = <<>>

\* not simulating: a get answered from the cache an earlier call had filled
C22_Witness ==
    /\ ~simulate
    /\ last.op = "get_output_enabled"
    /\ pre.cache_valid["output_enabled"][last.index]
    /\ last.calls = <<>>
    /\ last.ret = TRUE

====
